---- MODULE Spec2Model ----
(***************************************************************************)
(* Model of the Plugwise USB integration glue                              *)
(* (custom_components/plugwise_usb/__init__.py): the config-entry          *)
(* lifecycle of one stick (async_setup_entry, the scan callback            *)
(* discover_finished, shutdown, async_unload_entry), the entity            *)
(* subscription bookkeeping of PlugwiseUSBEntity, and the unique-id        *)
(* migration async_migrate_entity_entry; and of the Smile helpers          *)
(* (custom_components/plugwise/smile_helpers.py): GWBinarySensor,          *)
(* GWThermostat, icon_selector and get_preset_temp.                        *)
(*                                                                         *)
(* Six specifications share the variables: Spec (the lifecycle),           *)
(* SpecEntity (entities of one node), SpecMigrate (identifier migration),  *)
(* SpecNotify (the gateway binary sensor), SpecThermostat (the thermostat  *)
(* states) and SpecHelpers (the two helper functions). Each leaves the     *)
(* other parts at their initial values.                                    *)
(***************************************************************************)
EXTENDS Integers, Sequences, FiniteSets, TLC

VARIABLES
    \* ---- lifecycle of one config entry / one stick
    setup_pc,          \* position of async_setup_entry
    stage,             \* index in Stages of the stage being run
    inflight,          \* stick operations started and not yet completed
    started,           \* stick operations in the order they were started
    completed,         \* stages that completed without raising
    failure,           \* NoFailure, or the stage that raised and what
    setup_result,      \* "pending", "True", or the exception leaving setup
    connected,         \* the stick holds its transport open
    disconnect_calls,  \* calls of api_stick.disconnect
    entry,             \* hass.data[DOMAIN][config_entry.entry_id]
    stop_listener,     \* EVENT_HOMEASSISTANT_STOP listener registered
    update_listener,   \* config entry update listener registered
    services,          \* add-device / remove-device services registered
    executor_jobs,     \* api_stick.disconnect jobs queued by shutdown
    unload_pc,         \* position of async_unload_entry
    unload_ok,         \* what async_unload_platforms reported
    unload_result,     \* "pending", "True", "False" or "KeyError"
    df_pc,             \* position of discover_finished (stick thread)
    df_idx,            \* next item of api_stick.devices.items()
    devices,           \* api_stick.devices, in iteration order
    pref_disable_new_entities,  \* the persisted option
    forwarded,         \* async_forward_entry_setups was scheduled
    auto_update,       \* api_stick.auto_update() was called
    join_requests,     \* arguments of allow_join_requests, if called
    join_callback,     \* add_new_node subscribed for CB_JOIN_REQUEST
    \* ---- the entities of one node
    entity_key,        \* entity_description.key of each entity
    entity_state,      \* "new", "added" or "removed", per entity
    callbacks,         \* the node's subscriptions: count per (entity, kind)
    node_available,    \* node.available
    attr_available,    \* _attr_available of each entity
    stale_update,      \* sensor_update ran on an entity after its removal
    \* ---- identifier migration
    orig_id,           \* the persisted unique id before any migration
    unique_id,         \* the persisted unique id
    migration,         \* what async_migrate_entity_entry returned last
    loads,             \* setups that ran the migration
    \* ---- GWBinarySensor
    gw_notifications,  \* self._data[0].get("notifications"), as last read
    attributes,        \* self._attributes
    notification,      \* self._notification
    attrs_result,      \* what extra_state_attributes returned last
    evaluations,       \* evaluations of extra_state_attributes
    \* ---- GWThermostat
    gw_data,           \* what the properties read of self._data
    th_call,           \* the property read last
    th_returned,       \* what it returned
    \* ---- icon_selector and get_preset_temp
    call,              \* the function called last, with its arguments
    returned           \* what it returned or raised

lifecycle_vars ==
    << setup_pc, stage, inflight, started, completed, failure, setup_result,
       connected, disconnect_calls, entry, stop_listener, update_listener,
       services, executor_jobs, unload_pc, unload_ok, unload_result,
       df_pc, df_idx, devices, pref_disable_new_entities, forwarded,
       auto_update, join_requests, join_callback >>

entity_vars ==
    << entity_key, entity_state, callbacks, node_available, attr_available,
       stale_update >>

migrate_vars == << orig_id, unique_id, migration, loads >>

notify_vars ==
    << gw_notifications, attributes, notification, attrs_result,
       evaluations >>

thermostat_vars == << gw_data, th_call, th_returned >>

helper_vars == << call, returned >>

smile_vars == << notify_vars, thermostat_vars, helper_vars >>

vars == << lifecycle_vars, entity_vars, migrate_vars, smile_vars >>

\* What an action of the lifecycle leaves alone besides the lifecycle.
rest_vars ==
    << pref_disable_new_entities, entity_vars, migrate_vars, smile_vars >>

\* No stage has raised.
NoFailure == [ stage |-> "none", kind |-> "none" ]

\* allow_join_requests has not been called.
NoJoinRequests == << >>

\* Largest number of entries of api_stick.devices.
MaxDevices == 2

\* ------------------------------------------------------------------------
\* Constants of the integration
\* ------------------------------------------------------------------------

\* The three awaited stages of the try block, in source order.
Stages == << "connect", "initialize_stick", "initialize_circle_plus" >>

\* The exceptions of plugwise_usb.exceptions the integration imports.
FailureKinds ==
    { "PortError", "StickInitError", "NetworkDown", "CirclePlusError",
      "TimeoutException" }

USB_RELAY_ID == "relay"
USB_MOTION_ID == "motion"
STICK == "stick"
UNDO_UPDATE_LISTENER == "undo_update_listener"

\* Platform.SWITCH, Platform.BINARY_SENSOR, Platform.SENSOR.
PLATFORMS_USB == { "switch", "binary_sensor", "sensor" }

\* The features a node reports, as far as discover_finished reads them.
Features == SUBSET { USB_RELAY_ID, USB_MOTION_ID }

\* The value None of api_stick.devices (a node of an unsupported type).
NoneDevice == [ is_none |-> TRUE, features |-> {} ]

DeviceValues ==
    { NoneDevice } \cup { [is_none |-> FALSE, features |-> f] : f \in Features }

\* api_stick.devices: a mapping mac -> device, iterated in insertion order.
\* The macs are 1..n.
DeviceMaps == UNION { [1..n -> DeviceValues] : n \in 0..MaxDevices }

\* hass.data[DOMAIN] without an entry for this config entry.
NoEntry ==
    [ present |-> FALSE, keys |-> {},
      switch |-> << >>, binary_sensor |-> << >>, sensor |-> << >> ]

\* ------------------------------------------------------------------------
\* async_setup_entry
\* ------------------------------------------------------------------------

\* A PortError clause that disconnects like the other clauses.
HandlerDisconnectsAlways(kind) == TRUE

\* Which except clause awaits api_stick.disconnect before raising.
HandlerDisconnects(kind) == kind # "PortError"

\* A try statement without the TimeoutException clause: the exception
\* leaves setup as it is.
HandlerRaisesNoTimeoutClause(kind) ==
    IF kind = "TimeoutException" THEN kind ELSE "ConfigEntryNotReady"

\* What every except clause raises.
HandlerRaises(kind) == "ConfigEntryNotReady"

\* Where setup continues after a stage returned.
AfterStage(i) == IF i < Len(Stages) THEN "call" ELSE "scan"

\* A TimeoutException clause that logs and does not raise: setup goes on
\* with line 137.
AfterFailureSwallowTimeout(kind) ==
    IF kind = "TimeoutException" THEN "scan" ELSE "except"

\* A NetworkDown clause that logs and does not raise.
AfterFailureSwallowNetworkDown(kind) ==
    IF kind = "NetworkDown" THEN "scan" ELSE "except"

\* Where setup continues after a stage raised.
AfterFailure(kind) == "except"

InitLifecycle ==
    /\ setup_pc = "idle"
    /\ stage = 1
    /\ inflight = {}
    /\ started = << >>
    /\ completed = {}
    /\ failure = NoFailure
    /\ setup_result = "pending"
    /\ connected = FALSE
    /\ disconnect_calls = 0
    /\ entry = NoEntry
    /\ stop_listener = FALSE
    /\ update_listener = FALSE
    /\ services = FALSE
    /\ executor_jobs = 0
    /\ unload_pc = "idle"
    /\ unload_ok = FALSE
    /\ unload_result = "pending"
    /\ df_pc = "idle"
    /\ df_idx = 1
    /\ devices = << >>
    /\ pref_disable_new_entities \in BOOLEAN
    /\ forwarded = FALSE
    /\ auto_update = FALSE
    /\ join_requests = NoJoinRequests
    /\ join_callback = FALSE

\* Lines 53, 109-110: the Stick is created and stored under STICK.
SetupBegin ==
    /\ setup_pc = "idle"
    /\ entry' = [ NoEntry EXCEPT !.present = TRUE, !.keys = { STICK } ]
    /\ setup_pc' = "call"
    /\ UNCHANGED << stage, inflight, started, completed, failure,
                    setup_result, connected, disconnect_calls,
                    stop_listener, update_listener, services,
                    executor_jobs, unload_pc, unload_ok, unload_result,
                    df_pc, df_idx, devices, rest_vars,
                    forwarded, auto_update, join_requests, join_callback >>

\* Lines 113, 115, 117: the stage is handed to the executor and awaited.
StageStart ==
    /\ setup_pc = "call"
    /\ inflight' = inflight \cup { Stages[stage] }
    /\ started' = Append(started, Stages[stage])
    /\ setup_pc' = "await"
    /\ UNCHANGED << stage, completed, failure, setup_result, connected,
                    disconnect_calls, entry, stop_listener, update_listener,
                    services, executor_jobs, unload_pc, unload_ok,
                    unload_result, df_pc, df_idx, devices,
                    rest_vars, forwarded, auto_update,
                    join_requests, join_callback >>

\* The awaited stage returns.
StageOk ==
    /\ setup_pc = "await"
    /\ inflight' = inflight \ { Stages[stage] }
    /\ completed' = completed \cup { Stages[stage] }
    /\ connected' = (connected \/ Stages[stage] = "connect")
    /\ setup_pc' = AfterStage(stage)
    /\ stage' = IF stage < Len(Stages) THEN stage + 1 ELSE stage
    /\ UNCHANGED << started, failure, setup_result, disconnect_calls, entry,
                    stop_listener, update_listener, services, executor_jobs,
                    unload_pc, unload_ok, unload_result, df_pc, df_idx,
                    devices, rest_vars, forwarded,
                    auto_update, join_requests, join_callback >>

\* The awaited stage raises one of the library's exceptions.
StageFail ==
    /\ setup_pc = "await"
    /\ \E kind \in FailureKinds :
          /\ failure' = [ stage |-> Stages[stage], kind |-> kind ]
          /\ setup_pc' = AfterFailure(kind)
    /\ inflight' = inflight \ { Stages[stage] }
    /\ UNCHANGED << stage, started, completed, setup_result, connected,
                    disconnect_calls, entry, stop_listener, update_listener,
                    services, executor_jobs, unload_pc, unload_ok,
                    unload_result, df_pc, df_idx, devices,
                    rest_vars, forwarded, auto_update,
                    join_requests, join_callback >>

\* Lines 123, 127, 131, 135: the except clause awaits api_stick.disconnect.
ExceptDisconnect ==
    /\ setup_pc = "except"
    /\ HandlerDisconnects(failure.kind)
    /\ disconnect_calls' = disconnect_calls + 1
    /\ connected' = FALSE
    /\ setup_pc' = "raise"
    /\ UNCHANGED << stage, inflight, started, completed, failure,
                    setup_result, entry, stop_listener, update_listener,
                    services, executor_jobs, unload_pc, unload_ok,
                    unload_result, df_pc, df_idx, devices,
                    rest_vars, forwarded, auto_update,
                    join_requests, join_callback >>

\* Lines 120, 124, 128, 132, 136: the except clause raises.
ExceptRaise ==
    /\ \/ setup_pc = "raise"
       \/ setup_pc = "except" /\ ~HandlerDisconnects(failure.kind)
    /\ setup_result' = HandlerRaises(failure.kind)
    /\ setup_pc' = "failed"
    /\ UNCHANGED << stage, inflight, started, completed, failure, connected,
                    disconnect_calls, entry, stop_listener, update_listener,
                    services, executor_jobs, unload_pc, unload_ok,
                    unload_result, df_pc, df_idx, devices,
                    rest_vars, forwarded, auto_update,
                    join_requests, join_callback >>

\* Line 138: api_stick.scan(discover_finished) starts the scan in the
\* stick's own thread and returns.
SetupScan ==
    /\ setup_pc = "scan"
    /\ inflight' = inflight \cup { "scan" }
    /\ started' = Append(started, "scan")
    /\ setup_pc' = "listen_stop"
    /\ UNCHANGED << stage, completed, failure, setup_result, connected,
                    disconnect_calls, entry, stop_listener, update_listener,
                    services, executor_jobs, unload_pc, unload_ok,
                    unload_result, df_pc, df_idx, devices,
                    rest_vars, forwarded, auto_update,
                    join_requests, join_callback >>

\* Line 141: hass.bus.async_listen_once(EVENT_HOMEASSISTANT_STOP, shutdown).
SetupListenStop ==
    /\ setup_pc = "listen_stop"
    /\ stop_listener' = TRUE
    /\ setup_pc' = "update_listener"
    /\ UNCHANGED << stage, inflight, started, completed, failure,
                    setup_result, connected, disconnect_calls, entry,
                    update_listener, services, executor_jobs, unload_pc,
                    unload_ok, unload_result, df_pc, df_idx, devices,
                    rest_vars, forwarded, auto_update,
                    join_requests, join_callback >>

\* Lines 144-146: the update listener is added and its undo stored in the
\* entry. The entry is looked up again: it is still there, because unload
\* runs on the event loop, which setup holds from line 138 to line 175.
SetupUpdateListener ==
    /\ setup_pc = "update_listener"
    /\ update_listener' = TRUE
    /\ entry' = [ entry EXCEPT !.keys = @ \cup { UNDO_UPDATE_LISTENER } ]
    /\ setup_pc' = "services"
    /\ UNCHANGED << stage, inflight, started, completed, failure,
                    setup_result, connected, disconnect_calls, stop_listener,
                    services, executor_jobs, unload_pc, unload_ok,
                    unload_result, df_pc, df_idx, devices,
                    rest_vars, forwarded, auto_update,
                    join_requests, join_callback >>

\* Lines 168-175: both services are registered and setup returns True.
SetupServices ==
    /\ setup_pc = "services"
    /\ services' = TRUE
    /\ setup_result' = "True"
    /\ setup_pc' = "done"
    /\ UNCHANGED << stage, inflight, started, completed, failure, connected,
                    disconnect_calls, entry, stop_listener, update_listener,
                    executor_jobs, unload_pc, unload_ok, unload_result,
                    df_pc, df_idx, devices, rest_vars,
                    forwarded, auto_update, join_requests, join_callback >>

async_setup_entry ==
    \/ SetupBegin
    \/ StageStart
    \/ StageOk
    \/ StageFail
    \/ ExceptDisconnect
    \/ ExceptRaise
    \/ SetupScan
    \/ SetupListenStop
    \/ SetupUpdateListener
    \/ SetupServices

\* async_setup_entry is not running: it returned or raised. Only then
\* does the event loop run the other handlers of this entry (setup has no
\* await after line 117 on the success path, and the host does not unload
\* an entry whose setup is in progress).
SetupOver == setup_pc \in { "done", "failed" }

setup_vars ==
    << setup_pc, stage, inflight, started, completed, failure, setup_result >>

unload_vars == << unload_pc, unload_ok, unload_result >>

df_vars ==
    << df_pc, df_idx, devices, forwarded, auto_update, join_requests,
       join_callback >>

\* ------------------------------------------------------------------------
\* shutdown (the EVENT_HOMEASSISTANT_STOP listener) and the executor
\* ------------------------------------------------------------------------

\* Lines 106-107: the stop event fires the listener registered with
\* async_listen_once (the bus drops it as it fires); shutdown queues
\* api_stick.disconnect on the executor and returns without awaiting it.
shutdown ==
    /\ SetupOver
    /\ stop_listener
    /\ stop_listener' = FALSE
    /\ executor_jobs' = executor_jobs + 1
    /\ UNCHANGED << setup_vars, connected, disconnect_calls, entry,
                    update_listener, services, unload_vars, df_vars,
                    rest_vars >>

\* The executor runs a queued api_stick.disconnect.
ExecutorDisconnect ==
    /\ executor_jobs > 0
    /\ executor_jobs' = executor_jobs - 1
    /\ disconnect_calls' = disconnect_calls + 1
    /\ connected' = FALSE
    /\ UNCHANGED << setup_vars, entry, stop_listener, update_listener,
                    services, unload_vars, df_vars,
                    rest_vars >>

\* ------------------------------------------------------------------------
\* async_unload_entry
\* ------------------------------------------------------------------------

\* Line 184 looks up hass.data[DOMAIN][entry_id][UNDO_UPDATE_LISTENER]:
\* a KeyError unless the entry and the key are there.
UndoListenerFound(e) == e.present /\ UNDO_UPDATE_LISTENER \in e.keys

\* An unload without the test of line 185.
UnloadDisconnectsAlways(ok) == TRUE

\* Line 185: the branch that disconnects and pops the entry.
UnloadDisconnects(ok) == ok

\* Lines 181-183: the host invokes unload of the entry (once); the call
\* awaits async_unload_platforms.
UnloadBegin ==
    /\ SetupOver
    /\ unload_pc = "idle"
    /\ unload_pc' = "platforms"
    /\ UNCHANGED << setup_vars, connected, disconnect_calls, entry,
                    stop_listener, update_listener, services, executor_jobs,
                    unload_ok, unload_result, df_vars,
                    rest_vars >>

\* Lines 181-187: async_unload_platforms reports unload_ok; the undo of the
\* update listener is looked up and called; with unload_ok the stick is
\* read from the entry and api_stick.disconnect is handed to the executor.
UnloadListener ==
    /\ unload_pc = "platforms"
    /\ \E ok \in BOOLEAN :
          /\ unload_ok' = ok
          /\ IF ~UndoListenerFound(entry)
                THEN /\ unload_result' = "KeyError"
                     /\ unload_pc' = "raised"
                     /\ UNCHANGED update_listener
                ELSE /\ update_listener' = FALSE
                     /\ IF UnloadDisconnects(ok)
                           THEN /\ unload_pc' = "disconnect"
                                /\ UNCHANGED unload_result
                           ELSE /\ unload_pc' = "done"
                                /\ unload_result' = "False"
    /\ UNCHANGED << setup_vars, connected, disconnect_calls, entry,
                    stop_listener, services, executor_jobs, df_vars,
                    rest_vars >>

\* Line 187: the executor runs api_stick.disconnect for unload.
UnloadDisconnect ==
    /\ unload_pc = "disconnect"
    /\ disconnect_calls' = disconnect_calls + 1
    /\ connected' = FALSE
    /\ unload_pc' = "pop"
    /\ UNCHANGED << setup_vars, entry, stop_listener, update_listener,
                    services, executor_jobs, unload_ok, unload_result,
                    df_vars, rest_vars >>

\* Lines 188-189: the entry is popped and unload returns unload_ok.
UnloadPop ==
    /\ unload_pc = "pop"
    /\ entry' = NoEntry
    /\ unload_result' = "True"
    /\ unload_pc' = "done"
    /\ UNCHANGED << setup_vars, connected, disconnect_calls, stop_listener,
                    update_listener, services, executor_jobs, unload_ok,
                    df_vars, rest_vars >>

async_unload_entry ==
    \/ UnloadBegin
    \/ UnloadListener
    \/ UnloadDisconnect
    \/ UnloadPop

\* ------------------------------------------------------------------------
\* discover_finished, called from the stick's thread when the scan ends
\* ------------------------------------------------------------------------

\* Line 69.
InSwitch(device) == USB_RELAY_ID \in device.features

\* A motion test that reads the relay feature.
InBinarySensorByRelay(device) == USB_RELAY_ID \in device.features

\* Line 73.
InBinarySensor(device) == USB_MOTION_ID \in device.features

\* Line 77.
InSensor(device) == TRUE

\* Line 68.
Supported(device) == ~device.is_none

\* A join policy that auto-accepts whatever the option says.
JoinRequestsAutoAccept(disable_new) == << TRUE, TRUE >>

\* Lines 98-104: (accept, auto-accept) handed to allow_join_requests.
JoinRequests(disable_new) ==
    IF disable_new THEN << TRUE, FALSE >> ELSE << TRUE, TRUE >>

\* Line 104 is reached.
SubscribesJoinCallback(disable_new) == ~disable_new

\* The scan ends with the nodes it found and the stick's thread enters
\* the callback.
DfBegin ==
    /\ "scan" \in inflight
    /\ df_pc = "idle"
    /\ \E d \in DeviceMaps : devices' = d
    /\ inflight' = inflight \ { "scan" }
    /\ df_pc' = "reset"
    /\ UNCHANGED << setup_pc, stage, started, completed, failure,
                    setup_result, connected, disconnect_calls, entry,
                    stop_listener, update_listener, services, executor_jobs,
                    unload_vars, df_idx, forwarded, auto_update,
                    join_requests, join_callback,
                    rest_vars >>

\* Lines 63-64: every platform's list is set to []; the entry is looked
\* up for each assignment, a KeyError once it is popped.
DfReset ==
    /\ df_pc = "reset"
    /\ IF entry.present
          THEN /\ entry' = [ entry EXCEPT !.keys = @ \cup PLATFORMS_USB,
                                          !.switch = << >>,
                                          !.binary_sensor = << >>,
                                          !.sensor = << >> ]
               /\ df_pc' = "devices"
          ELSE /\ df_pc' = "raised"
               /\ UNCHANGED entry
    /\ df_idx' = 1
    /\ UNCHANGED << setup_vars, connected, disconnect_calls, stop_listener,
                    update_listener, services, executor_jobs, unload_vars,
                    devices, forwarded, auto_update, join_requests,
                    join_callback, rest_vars >>

\* e[list] with mac appended when cond holds.
AppendIf(seq, cond, mac) == IF cond THEN Append(seq, mac) ELSE seq

\* Lines 66-77, one item of api_stick.devices.items(): an unsupported
\* device is skipped; otherwise the mac is appended to the lists of the
\* entry, which is looked up anew (KeyError once it is popped).
DfDevice ==
    /\ df_pc = "devices"
    /\ df_idx <= Len(devices)
    /\ LET device == devices[df_idx] IN
          IF ~Supported(device)
             THEN /\ df_idx' = df_idx + 1
                  /\ UNCHANGED << entry, df_pc >>
             ELSE IF ~entry.present
                     THEN /\ df_pc' = "raised"
                          /\ UNCHANGED << entry, df_idx >>
                     ELSE /\ entry' =
                               [ entry EXCEPT
                                   !.switch =
                                       AppendIf(@, InSwitch(device), df_idx),
                                   !.binary_sensor =
                                       AppendIf(@, InBinarySensor(device),
                                                df_idx),
                                   !.sensor =
                                       AppendIf(@, InSensor(device), df_idx) ]
                          /\ df_idx' = df_idx + 1
                          /\ UNCHANGED df_pc
    /\ UNCHANGED << setup_vars, connected, disconnect_calls, stop_listener,
                    update_listener, services, executor_jobs, unload_vars,
                    devices, forwarded, auto_update, join_requests,
                    join_callback, rest_vars >>

\* Lines 79-104: the platform setups are scheduled on the loop, auto update
\* is started and the join policy is applied.
DfFinish ==
    /\ df_pc = "devices"
    /\ df_idx > Len(devices)
    /\ forwarded' = TRUE
    /\ auto_update' = TRUE
    /\ join_requests' = JoinRequests(pref_disable_new_entities)
    /\ join_callback' = SubscribesJoinCallback(pref_disable_new_entities)
    /\ df_pc' = "done"
    /\ UNCHANGED << setup_vars, connected, disconnect_calls, entry,
                    stop_listener, update_listener, services, executor_jobs,
                    unload_vars, df_idx, devices,
                    rest_vars >>

discover_finished ==
    \/ DfBegin
    \/ DfReset
    \/ DfDevice
    \/ DfFinish

\* ------------------------------------------------------------------------
\* PlugwiseUSBEntity: the entities of one node
\* ------------------------------------------------------------------------

\* Number of entities of the node.
MaxEntities == 2

Entities == 1..MaxEntities

USB_AVAILABLE_ID == "available"

\* The keys an entity description may carry.
EntityKeys == { USB_AVAILABLE_ID, USB_RELAY_ID, "power_1s" }

\* The event kinds a node reports.
Kinds == EntityKeys

\* Line 245: self.node_callbacks.
node_callbacks(e) == << USB_AVAILABLE_ID, entity_key[e] >>

\* Lines 249-250: the kinds async_added_to_hass walks.
SubscribedKinds(e) == node_callbacks(e)

\* A removal that unsubscribes the entity's own key only.
UnsubscribedKindsKeyOnly(e) == << entity_key[e] >>

\* Lines 254-255: the kinds async_will_remove_from_hass walks.
UnsubscribedKinds(e) == node_callbacks(e)

\* node.subscribe_callback(self.sensor_update, kind): one more subscription
\* of the entity's sensor_update for the kind.
subscribe_callback(cb, e, kind) ==
    [ cb EXCEPT ![<< e, kind >>] = @ + 1 ]

\* node.unsubscribe_callback(self.sensor_update, kind): one subscription
\* less, if there is one.
unsubscribe_callback(cb, e, kind) ==
    [ cb EXCEPT ![<< e, kind >>] = IF @ > 0 THEN @ - 1 ELSE 0 ]

\* The for loop of line 249 over kinds[i..].
RECURSIVE SubscribeAll(_, _, _, _)
SubscribeAll(cb, e, kinds, i) ==
    IF i > Len(kinds)
       THEN cb
       ELSE SubscribeAll(subscribe_callback(cb, e, kinds[i]), e, kinds, i + 1)

\* The for loop of line 254 over kinds[i..].
RECURSIVE UnsubscribeAll(_, _, _, _)
UnsubscribeAll(cb, e, kinds, i) ==
    IF i > Len(kinds)
       THEN cb
       ELSE UnsubscribeAll(unsubscribe_callback(cb, e, kinds[i]), e, kinds,
                           i + 1)

\* The entities whose sensor_update the node calls for an event of `kind`.
Subscribers(kind) == { e \in Entities : callbacks[<< e, kind >>] > 0 }

\* Lines 228-245: the entities are constructed from the node.
InitEntity ==
    /\ entity_key \in [Entities -> EntityKeys]
    /\ entity_state = [ e \in Entities |-> "new" ]
    /\ callbacks = [ p \in Entities \X Kinds |-> 0 ]
    /\ node_available \in BOOLEAN
    /\ attr_available = [ e \in Entities |-> node_available ]
    /\ stale_update = FALSE

\* No entity exists (the lifecycle and migration specifications).
IdleEntity ==
    /\ entity_key = << >>
    /\ entity_state = << >>
    /\ callbacks = << >>
    /\ node_available = FALSE
    /\ attr_available = << >>
    /\ stale_update = FALSE

\* Lines 247-250: the host adds an entity that is not added.
async_added_to_hass ==
    \E e \in Entities :
        /\ entity_state[e] # "added"
        /\ callbacks' = SubscribeAll(callbacks, e, SubscribedKinds(e), 1)
        /\ entity_state' = [ entity_state EXCEPT ![e] = "added" ]
        /\ UNCHANGED << entity_key, node_available, attr_available,
                        stale_update, lifecycle_vars, migrate_vars,
                        smile_vars >>

\* Lines 252-255: the host removes an added entity.
async_will_remove_from_hass ==
    \E e \in Entities :
        /\ entity_state[e] = "added"
        /\ callbacks' = UnsubscribeAll(callbacks, e, UnsubscribedKinds(e), 1)
        /\ entity_state' = [ entity_state EXCEPT ![e] = "removed" ]
        /\ UNCHANGED << entity_key, node_available, attr_available,
                        stale_update, lifecycle_vars, migrate_vars,
                        smile_vars >>

\* Lines 257-260: the node changes its availability and reports an event
\* of one kind; every subscribed sensor_update runs and copies
\* node.available.
sensor_update ==
    \E kind \in Kinds, avail \in BOOLEAN :
        /\ node_available' = avail
        /\ attr_available' =
               [ e \in Entities |->
                   IF e \in Subscribers(kind) THEN avail
                                              ELSE attr_available[e] ]
        /\ stale_update' =
               (stale_update
                   \/ \E e \in Subscribers(kind) : entity_state[e] = "removed")
        /\ UNCHANGED << entity_key, entity_state, callbacks, lifecycle_vars,
                        migrate_vars, smile_vars >>

NextEntity ==
    \/ async_added_to_hass
    \/ async_will_remove_from_hass
    \/ sensor_update

\* ------------------------------------------------------------------------
\* async_migrate_entity_entry
\* ------------------------------------------------------------------------

\* Identifiers are tuples of characters.

\* Largest number of pieces an identifier is put together from.
MaxChunks == 3

\* Largest number of setups (each runs the migration once).
MaxLoads == 2

\* Lines 207-215: the conversion list of unique ID suffixes, in order.
SuffixTable ==
    <<
      [ old |->
          << "l", "a", "s", "t", "_", "s", "e", "c", "o", "n", "d" >>,
        new |->
          << "p", "o", "w", "e", "r", "_", "1", "s" >> ],
      [ old |->
          << "l", "a", "s", "t", "_", "8", "_", "s", "e", "c", "o", "n",
             "d", "s" >>,
        new |->
          << "p", "o", "w", "e", "r", "_", "8", "s" >> ],
      [ old |->
          << "d", "a", "y", "_", "c", "o", "n", "s", "u", "m", "p", "t",
             "i", "o", "n" >>,
        new |->
          << "e", "n", "e", "r", "g", "y", "_", "c", "o", "n", "s", "u",
             "m", "p", "t", "i", "o", "n", "_", "t", "o", "d", "a", "y" >> ],
      [ old |->
          << "r", "t", "t" >>,
        new |->
          << "p", "i", "n", "g" >> ],
      [ old |->
          << "r", "s", "s", "i", "_", "i", "n" >>,
        new |->
          << "R", "S", "S", "I", "_", "i", "n" >> ],
      [ old |->
          << "r", "s", "s", "i", "_", "o", "u", "t" >>,
        new |->
          << "R", "S", "S", "I", "_", "o", "u", "t" >> ],
      [ old |->
          << "r", "e", "l", "a", "y", "_", "s", "t", "a", "t", "e" >>,
        new |->
          << "r", "e", "l", "a", "y" >> ]
    >>

\* str.endswith: s ends with suffix.
EndsWith(s, suffix) ==
    /\ Len(suffix) <= Len(s)
    /\ SubSeq(s, Len(s) - Len(suffix) + 1, Len(s)) = suffix

\* s starts with prefix.
StartsWith(s, prefix) ==
    /\ Len(prefix) <= Len(s)
    /\ SubSeq(s, 1, Len(prefix)) = prefix

\* str.replace(old, new) for a non-empty old: every occurrence of old,
\* found from the left without overlap, is replaced by new.
RECURSIVE Replace(_, _, _)
Replace(s, old, new) ==
    IF Len(s) < Len(old)
       THEN s
       ELSE IF StartsWith(s, old)
               THEN new \o Replace(SubSeq(s, Len(old) + 1, Len(s)), old, new)
               ELSE << Head(s) >> \o Replace(Tail(s), old, new)

\* A replace whose arguments are the wrong way round.
NewUniqueIdSwapped(id, old, new) == Replace(id, new, old)

\* Line 217: the new unique id for the matching table entry.
NewUniqueId(id, old, new) == Replace(id, old, new)

\* Line 220: no migration needed.
NoMigration == [ migrated |-> FALSE, new_unique_id |-> << >> ]

\* Lines 207-220: the for loop over the table from entry i on.
RECURSIVE MigrateFrom(_, _)
MigrateFrom(id, i) ==
    IF i > Len(SuffixTable)
       THEN NoMigration
       ELSE IF EndsWith(id, SuffixTable[i].old)
               THEN [ migrated |-> TRUE,
                      new_unique_id |->
                          NewUniqueId(id, SuffixTable[i].old,
                                      SuffixTable[i].new) ]
               ELSE MigrateFrom(id, i + 1)

async_migrate_entity_entry(id) == MigrateFrom(id, 1)

\* The pieces identifiers are put together from: a device address, the
\* separator of line 242, the legacy suffixes and a current one.
Chunks ==
    { << "0", "0", ":", "1", "1" >>, << "-" >>,
      << "p", "i", "n", "g" >> }
        \cup { SuffixTable[i].old : i \in 1..Len(SuffixTable) }

RECURSIVE ChunkStrings(_)
ChunkStrings(n) ==
    IF n = 0
       THEN { << >> }
       ELSE LET shorter == ChunkStrings(n - 1) IN
            shorter \cup { s \o c : s \in shorter, c \in Chunks }

\* The persisted identifiers considered.
Identifiers == ChunkStrings(MaxChunks) \ { << >> }

InitMigrate ==
    /\ orig_id \in Identifiers
    /\ unique_id = orig_id
    /\ migration = NoMigration
    /\ loads = 0

\* No entity is registered (the lifecycle and entity specifications).
IdleMigrate ==
    /\ orig_id = << >>
    /\ unique_id = << >>
    /\ migration = NoMigration
    /\ loads = 0

\* Lines 45-51: a setup hands the registered entity to the migration and
\* the entity registry stores the new unique id it returns, if any.
MigrateEntry ==
    /\ loads < MaxLoads
    /\ loads' = loads + 1
    /\ migration' = async_migrate_entity_entry(unique_id)
    /\ unique_id' = IF migration'.migrated THEN migration'.new_unique_id
                                           ELSE unique_id
    /\ UNCHANGED << orig_id, lifecycle_vars, entity_vars, smile_vars >>

NextMigrate == MigrateEntry

\* ------------------------------------------------------------------------
\* smile_helpers.py: strings and dicts
\* ------------------------------------------------------------------------

\* Strings that the code converts are tuples of characters.

\* The upper-case letter of every letter.
ToUpper ==
    [ a |-> "A", b |-> "B", c |-> "C", d |-> "D", e |-> "E", f |-> "F",
      g |-> "G", h |-> "H", i |-> "I", j |-> "J", k |-> "K", l |-> "L",
      m |-> "M", n |-> "N", o |-> "O", p |-> "P", q |-> "Q", r |-> "R",
      s |-> "S", t |-> "T", u |-> "U", v |-> "V", w |-> "W", x |-> "X",
      y |-> "Y", z |-> "Z", A |-> "A", B |-> "B", C |-> "C", D |-> "D",
      E |-> "E", F |-> "F", G |-> "G", H |-> "H", I |-> "I", J |-> "J",
      K |-> "K", L |-> "L", M |-> "M", N |-> "N", O |-> "O", P |-> "P",
      Q |-> "Q", R |-> "R", S |-> "S", T |-> "T", U |-> "U", V |-> "V",
      W |-> "W", X |-> "X", Y |-> "Y", Z |-> "Z" ]

\* The lower-case letter of every letter.
ToLower ==
    [ a |-> "a", b |-> "b", c |-> "c", d |-> "d", e |-> "e", f |-> "f",
      g |-> "g", h |-> "h", i |-> "i", j |-> "j", k |-> "k", l |-> "l",
      m |-> "m", n |-> "n", o |-> "o", p |-> "p", q |-> "q", r |-> "r",
      s |-> "s", t |-> "t", u |-> "u", v |-> "v", w |-> "w", x |-> "x",
      y |-> "y", z |-> "z", A |-> "a", B |-> "b", C |-> "c", D |-> "d",
      E |-> "e", F |-> "f", G |-> "g", H |-> "h", I |-> "i", J |-> "j",
      K |-> "k", L |-> "l", M |-> "m", N |-> "n", O |-> "o", P |-> "p",
      Q |-> "q", R |-> "r", S |-> "s", T |-> "t", U |-> "u", V |-> "v",
      W |-> "w", X |-> "x", Y |-> "y", Z |-> "z" ]

IsLetter(c) == c \in DOMAIN ToUpper

UpperChar(c) == IF IsLetter(c) THEN ToUpper[c] ELSE c

LowerChar(c) == IF IsLetter(c) THEN ToLower[c] ELSE c

\* str.upper.
upper(s) == [ i \in 1..Len(s) |-> UpperChar(s[i]) ]

\* str.title: the first letter of every run of letters in upper case, the
\* other letters in lower case.
title(s) ==
    [ i \in 1..Len(s) |->
        IF i = 1 \/ ~IsLetter(s[i - 1]) THEN UpperChar(s[i])
                                        ELSE LowerChar(s[i]) ]

\* A dict is the sequence of its items, in insertion order.
DictHas(d, k) == \E i \in 1..Len(d) : d[i].key = k

\* d[k] for a key of d.
DictGet(d, k) == d[CHOOSE i \in 1..Len(d) : d[i].key = k].value

\* d[k] = v: a key of d keeps its place, a new key goes to the end.
DictSet(d, k, v) ==
    IF DictHas(d, k)
       THEN LET i == CHOOSE j \in 1..Len(d) : d[j].key = k
            IN  SubSeq(d, 1, i - 1) \o << [ key |-> k, value |-> v ] >>
                    \o SubSeq(d, i + 1, Len(d))
       ELSE Append(d, [ key |-> k, value |-> v ])

\* ------------------------------------------------------------------------
\* GWBinarySensor
\* ------------------------------------------------------------------------

\* Largest number of notifications of a snapshot.
MaxNotifications == 2

\* Largest number of severity entries of one notification.
MaxSeverities == 2

\* Largest number of messages of a snapshot.
MaxMessages == 3

\* Largest number of evaluations of extra_state_attributes.
MaxEvaluations == 2

\* const.SEVERITIES: the severities of Plugwise notifications.
SEVERITIES ==
    << << "o", "t", "h", "e", "r" >>,
       << "i", "n", "f", "o" >>,
       << "w", "a", "r", "n", "i", "n", "g" >>,
       << "e", "r", "r", "o", "r" >> >>

\* The tags the gateway sends: two severities and a tag that is none.
TagValues ==
    { << "i", "n", "f", "o" >>,
      << "w", "a", "r", "n", "i", "n", "g" >>,
      << "d", "e", "b", "u", "g" >> }

\* Message texts.
Messages == { << "a" >>, << "b" >> }

\* Notification ids.
NotificationIds == 1..MaxNotifications

\* The values of one notification: a dict severity tag -> message with
\* at least one item (the items in iteration order).
Details ==
    UNION { { d \in [ 1..n -> [ type : TagValues, msg : Messages ] ] :
                \A i, j \in 1..n : d[i].type = d[j].type => i = j } :
            n \in 1..MaxSeverities }

RECURSIVE CountMessages(_, _)
CountMessages(notify, i) ==
    IF i > Len(notify)
       THEN 0
       ELSE Len(notify[i].details) + CountMessages(notify, i + 1)

\* A dict id -> details with distinct ids and no more messages than
\* MaxMessages.
SnapshotOk(notify) ==
    /\ \A i, j \in 1..Len(notify) : notify[i].id = notify[j].id => i = j
    /\ CountMessages(notify, 1) <= MaxMessages

\* self._data[0].get("notifications"): a dict id -> details, in iteration
\* order; the empty sequence stands for None and for {}, which line 58
\* does not tell apart.
Snapshots ==
    UNION { { notify \in [ 1..n -> [ id : NotificationIds,
                                      details : Details ] ] :
                SnapshotOk(notify) } :
            n \in 0..MaxNotifications }

\* Line 56 and line 63: the key of a severity.
AttributeKey(severity) == upper(severity) \o << "_", "m", "s", "g" >>

\* Lines 55-56: the for loop over SEVERITIES[i..].
RECURSIVE ResetFrom(_, _)
ResetFrom(attrs, i) ==
    IF i > Len(SEVERITIES)
       THEN attrs
       ELSE ResetFrom(DictSet(attrs, AttributeKey(SEVERITIES[i]), << >>),
                      i + 1)

\* Lists that are made when there are none and kept afterwards.
ResetAttributesOnce(attrs) ==
    IF attrs = << >> THEN ResetFrom(attrs, 1) ELSE attrs

\* Lines 55-56.
ResetAttributes(attrs) == ResetFrom(attrs, 1)

\* An evaluation that leaves the per-id view as it is.
ResetNotificationKeeps(old) == old

\* Line 54.
ResetNotification(old) == << >>

\* Line 61.
Recognised(msg_type) ==
    \E i \in 1..Len(SEVERITIES) : SEVERITIES[i] = msg_type

\* Lines 61-62.
MsgType(msg_type) ==
    IF Recognised(msg_type) THEN msg_type
                            ELSE << "o", "t", "h", "e", "r" >>

\* Line 64: f"{msg_type.title()}: {msg}".
Formatted(msg_type, msg) == title(msg_type) \o << ":", " " >> \o msg

\* Lines 59-60: the items the two for loops go through, in their order,
\* from notification i on.
RECURSIVE Items(_, _)
Items(notify, i) ==
    IF i > Len(notify)
       THEN << >>
       ELSE [ j \in 1..Len(notify[i].details) |->
                [ id |-> notify[i].id,
                  type |-> notify[i].details[j].type,
                  msg |-> notify[i].details[j].msg ] ]
            \o Items(notify, i + 1)

\* Lines 61-64 for one item: the message is appended to the list of its
\* severity (a KeyError when that list is missing) and the per-id view is
\* set.
CollectItem(st, item) ==
    LET msg_type == MsgType(item.type)
        key == AttributeKey(msg_type)
    IN  IF ~DictHas(st.attributes, key)
           THEN [ st EXCEPT !.raised = TRUE ]
           ELSE [ attributes |->
                      DictSet(st.attributes, key,
                              Append(DictGet(st.attributes, key), item.msg)),
                  notification |->
                      DictSet(st.notification, item.id,
                              Formatted(msg_type, item.msg)),
                  raised |-> FALSE ]

\* Lines 59-64 from item k on.
RECURSIVE Collect(_, _, _)
Collect(st, items, k) ==
    IF k > Len(items) \/ st.raised
       THEN st
       ELSE Collect(CollectItem(st, items[k]), items, k + 1)

\* Lines 44-48: the binary sensor is constructed (and, in the other
\* specifications, never read).
InitNotify ==
    /\ gw_notifications = << >>
    /\ attributes = << >>
    /\ notification = << >>
    /\ attrs_result = [ kind |-> "unset", value |-> << >> ]
    /\ evaluations = 0

\* Lines 51-67: the coordinator has refreshed the data and the host reads
\* extra_state_attributes.
extra_state_attributes ==
    /\ evaluations < MaxEvaluations
    /\ evaluations' = evaluations + 1
    /\ \E notify \in Snapshots :
          \E st \in { Collect([ attributes |-> ResetAttributes(attributes),
                                notification |->
                                    ResetNotification(notification),
                                raised |-> FALSE ],
                              Items(notify, 1), 1) } :
              /\ gw_notifications' = notify
              /\ attributes' = st.attributes
              /\ notification' = st.notification
              /\ attrs_result' =
                    IF st.raised
                       THEN [ kind |-> "KeyError", value |-> << >> ]
                       ELSE IF notify # << >>
                               THEN [ kind |-> "value",
                                      value |-> st.attributes ]
                               ELSE [ kind |-> "None", value |-> << >> ]
    /\ UNCHANGED << lifecycle_vars, entity_vars, migrate_vars,
                    thermostat_vars, helper_vars >>

NextNotify == extra_state_attributes

\* ------------------------------------------------------------------------
\* GWThermostat
\* ------------------------------------------------------------------------

\* The values the properties read and return: True, False, and None
\* (which is also what dict.get returns for a key that is not there).
PyValues == { "True", "False", "None" }

\* A comparison as a Python value.
PyBool(b) == IF b THEN "True" ELSE "False"

\* The control_state of the thermostat's own device, "absent" when the
\* device has no such key.
ControlStates == { "absent", "heating", "cooling", "off" }

\* The heater device of self._data[1].
Heaters ==
    [ heating_state : PyValues, cooling_state : PyValues,
      cooling_active : PyValues ]

\* self._data[1] without a heater device.
NoHeater ==
    [ heating_state |-> "None", cooling_state |-> "None",
      cooling_active |-> "None" ]

\* What the properties read of self._data: data[0]["active_device"],
\* data[0].get("heater_id") (None or the id of the heater device in
\* data[1]), the heater device, and the control_state of data[1][dev_id].
\* The gateway reports an active device only when it has a heater.
GatewayData ==
    { [ active_device |-> a, has_heater |-> TRUE, heater |-> h,
        control_state |-> c ] :
          a \in BOOLEAN, h \in Heaters, c \in ControlStates }
      \cup
    { [ active_device |-> FALSE, has_heater |-> FALSE, heater |-> NoHeater,
        control_state |-> c ] : c \in ControlStates }

\* A property that takes the active device for granted.
ActiveDeviceAssumed(data) == TRUE

\* Lines 98, 112: self._data[0]["active_device"].
ActiveDevice(data) == data.active_device

\* A property that does not look at control_state.
ControlStateIgnored(data) == FALSE

\* Lines 101, 115: "control_state" in self._data[1][self._dev_id].
ControlStateReported(data) == data.control_state # "absent"

\* Lines 97-106 and 111-120: the state named `flag`, with `mode` the
\* control_state it stands for. self._data[1][self._heater_id] is a
\* KeyError when heater_id is None.
ThermostatState(data, flag, mode) ==
    IF ~ActiveDevice(data)
       THEN "None"
       ELSE IF ~data.has_heater
               THEN "KeyError"
               ELSE IF ControlStateReported(data)
                       THEN PyBool(data.control_state = mode)
                       ELSE data.heater[flag]

\* Lines 94-106.
cooling_state(data) == ThermostatState(data, "cooling_state", "cooling")

\* Lines 108-120.
heating_state(data) == ThermostatState(data, "heating_state", "heating")

\* Lines 86-92.
cooling_active(data) ==
    IF data.has_heater THEN data.heater.cooling_active ELSE "None"

\* Lines 78-84: the thermostat is constructed on the gateway data.
InitThermostat ==
    /\ gw_data \in GatewayData
    /\ th_call = "none"
    /\ th_returned = "unset"

\* No thermostat exists (the other specifications).
IdleThermostat ==
    /\ gw_data = << >>
    /\ th_call = "none"
    /\ th_returned = "unset"

ReadCoolingActive ==
    /\ th_call' = "cooling_active"
    /\ th_returned' = cooling_active(gw_data)
    /\ UNCHANGED << gw_data, lifecycle_vars, entity_vars, migrate_vars,
                    notify_vars, helper_vars >>

ReadCoolingState ==
    /\ th_call' = "cooling_state"
    /\ th_returned' = cooling_state(gw_data)
    /\ UNCHANGED << gw_data, lifecycle_vars, entity_vars, migrate_vars,
                    notify_vars, helper_vars >>

ReadHeatingState ==
    /\ th_call' = "heating_state"
    /\ th_returned' = heating_state(gw_data)
    /\ UNCHANGED << gw_data, lifecycle_vars, entity_vars, migrate_vars,
                    notify_vars, helper_vars >>

NextThermostat ==
    \/ ReadCoolingActive
    \/ ReadCoolingState
    \/ ReadHeatingState

\* ------------------------------------------------------------------------
\* icon_selector and get_preset_temp
\* ------------------------------------------------------------------------

COOLING_ICON == "COOLING_ICON"
FLAME_ICON == "FLAME_ICON"
FLOW_OFF_ICON == "FLOW_OFF_ICON"
FLOW_ON_ICON == "FLOW_ON_ICON"
HEATING_ICON == "HEATING_ICON"
IDLE_ICON == "IDLE_ICON"
NO_NOTIFICATION_ICON == "NO_NOTIFICATION_ICON"
NOTIFICATION_ICON == "NOTIFICATION_ICON"

\* Values handed to icon_selector as `state`, and to get_preset_temp as
\* `cooling_active`.
StateValues == { "True", "False", "None", "0", "1" }

\* The truth value of a Python value in an if.
Truthy(value) == value \in { "True", "1" }

\* Lines 17-29: the dict built for a call, in source order.
Selector(state) ==
    << [ key |-> "cooling", value |-> COOLING_ICON ],
       [ key |-> "dhw-heating", value |-> FLAME_ICON ],
       [ key |-> "dhw and cooling", value |-> COOLING_ICON ],
       [ key |-> "dhw and heating", value |-> HEATING_ICON ],
       [ key |-> "heating", value |-> HEATING_ICON ],
       [ key |-> "idle", value |-> IDLE_ICON ],
       [ key |-> "dhw_state",
         value |-> IF Truthy(state) THEN FLOW_ON_ICON ELSE FLOW_OFF_ICON ],
       [ key |-> "flame_state",
         value |-> IF Truthy(state) THEN FLAME_ICON ELSE IDLE_ICON ],
       [ key |-> "slave_boiler_state",
         value |-> IF Truthy(state) THEN FLAME_ICON ELSE IDLE_ICON ],
       [ key |-> "plugwise_notification",
         value |-> IF Truthy(state) THEN NOTIFICATION_ICON
                                    ELSE NO_NOTIFICATION_ICON ] >>

\* A value a call returned.
Returns(value) == [ kind |-> "value", value |-> value ]

\* A call returned None.
ReturnsNone == [ kind |-> "None", value |-> "None" ]

\* A call raised the exception.
Raises(exception) == [ kind |-> exception, value |-> "None" ]

\* A selector read with a subscript.
icon_selector_subscript(arg, state) ==
    IF DictHas(Selector(state), arg)
       THEN Returns(DictGet(Selector(state), arg))
       ELSE Raises("KeyError")

\* Lines 15-31: selector.get(arg).
icon_selector(arg, state) ==
    IF DictHas(Selector(state), arg)
       THEN Returns(DictGet(Selector(state), arg))
       ELSE ReturnsNone

\* The categories icon_selector is called with: the keys of the selector
\* and two that are none.
Categories ==
    { Selector("None")[i].key : i \in 1..Len(Selector("None")) }
        \cup { "auto", "" }

\* The presets a table may hold, and one it never holds.
TablePresets == { "away", "home" }

PresetNames == TablePresets \cup { "vacation" }

\* Setpoints, in degrees.
Setpoints == { 10, 25 }

\* data["presets"]: preset -> (heating setpoint, cooling setpoint).
PresetTables ==
    UNION { [ names -> Setpoints \X Setpoints ] :
            names \in SUBSET TablePresets }

\* dict.get(preset): the pair, or None.
PresetGet(table, preset) ==
    IF preset \in DOMAIN table THEN Returns(table[preset]) ELSE ReturnsNone

\* Lines 36-38: the place of the setpoint in the pair (indices 1 and 0 of
\* the source).
PresetIndex(cooling) == IF Truthy(cooling) THEN 2 ELSE 1

\* Lines 34-38: data["presets"].get(preset)[index]; the subscript of None
\* is a TypeError.
get_preset_temp(preset, cooling, table) ==
    LET pair == PresetGet(table, preset) IN
    IF pair.kind = "None"
       THEN Raises("TypeError")
       ELSE Returns(pair.value[PresetIndex(cooling)])

\* No call has been made.
NoCall == [ fn |-> "none" ]

\* Nothing has returned.
NoReturn == [ kind |-> "unset", value |-> "None" ]

\* No helper has been called.
InitHelpers ==
    /\ call = NoCall
    /\ returned = NoReturn

CallIconSelector ==
    /\ \E arg \in Categories, state \in StateValues :
          /\ call' = [ fn |-> "icon_selector", arg |-> arg, state |-> state ]
          /\ returned' = icon_selector(arg, state)
    /\ UNCHANGED << lifecycle_vars, entity_vars, migrate_vars, notify_vars,
                    thermostat_vars >>

CallGetPresetTemp ==
    /\ \E preset \in PresetNames, cooling \in StateValues,
          table \in PresetTables :
          /\ call' = [ fn |-> "get_preset_temp", preset |-> preset,
                       cooling_active |-> cooling, presets |-> table ]
          /\ returned' = get_preset_temp(preset, cooling, table)
    /\ UNCHANGED << lifecycle_vars, entity_vars, migrate_vars, notify_vars,
                    thermostat_vars >>

NextHelpers ==
    \/ CallIconSelector
    \/ CallGetPresetTemp

\* ------------------------------------------------------------------------
\* Properties of the lifecycle
\* ------------------------------------------------------------------------

\* The stage `s` raised `kind`.
Failed(s, kind) == failure = [ stage |-> s, kind |-> kind ]

\* C1: when connect fails with PortError, api_stick.disconnect is never
\* called: the count of disconnect calls is zero when setup raises and stays
\* zero afterwards (no listener was registered, and an unload of the entry
\* does not get as far as its disconnect).
C1_PortErrorNoDisconnect ==
    Failed("connect", "PortError") => disconnect_calls = 0

\* Setup has raised after connect failed with PortError.
C1_Witness ==
    /\ Failed("connect", "PortError")
    /\ setup_pc = "failed"
    /\ setup_result = "ConfigEntryNotReady"

\* C2: once connect has completed, a failure of a later stage, whatever its
\* kind, is propagated with exactly one disconnect call made before it.
C2_DisconnectOnceAfterConnect ==
    (setup_pc = "failed" /\ "connect" \in completed) => disconnect_calls = 1

\* C3: every stage failure of every kind leaves async_setup_entry as
\* ConfigEntryNotReady and as nothing else: setup never returns True after
\* a stage raised, and never raises anything but ConfigEntryNotReady.
C3_FailureIsNotReady ==
    /\ failure # NoFailure =>
          setup_result \in { "pending", "ConfigEntryNotReady" }
    /\ (failure # NoFailure /\ SetupOver) =>
          setup_pc = "failed" /\ setup_result = "ConfigEntryNotReady"
    /\ setup_pc = "failed" => failure # NoFailure

\* Coordinator discovery timed out and setup has raised.
C3_Witness ==
    /\ Failed("initialize_circle_plus", "TimeoutException")
    /\ setup_pc = "failed"
    /\ setup_result = "ConfigEntryNotReady"

\* The stick operations of setup in their order.
StageOrder == Stages \o << "scan" >>

\* C4: the stages run in the order connect, initialize_stick,
\* initialize_circle_plus, scan; a stage is started only when all stages
\* before it have completed without raising; at most one is in flight; and
\* the scan is never started once a stage has raised.
C4_StagesSequential ==
    /\ Cardinality(inflight) <= 1
    /\ Len(started) <= Len(StageOrder)
    /\ \A i \in 1..Len(started) :
          /\ started[i] = StageOrder[i]
          /\ \A j \in 1..(i - 1) : StageOrder[j] \in completed
    /\ failure # NoFailure =>
          \A i \in 1..Len(started) : started[i] # "scan"

\* The scan is in flight after the three stages.
C4_Witness ==
    /\ inflight = { "scan" }
    /\ Len(started) = 4
    /\ completed = { "connect", "initialize_stick", "initialize_circle_plus" }

\* Setup succeeded and every shutdown trigger that was raised has run to
\* its end, at least one of them.
ShutdownTriggersHandled ==
    /\ setup_pc = "done"
    /\ unload_pc \in { "idle", "done" }
    /\ executor_jobs = 0
    /\ \/ unload_pc = "done"
       \/ ~stop_listener

\* C5: after a successful setup and any sequence of shutdown triggers (the
\* stop event, an unload, or both), the stick has been disconnected exactly
\* once and the stop listener and the update listener are released.
C5_DisconnectOnceListenersReleased ==
    ShutdownTriggersHandled =>
        /\ disconnect_calls = 1
        /\ ~stop_listener
        /\ ~update_listener

\* C6: async_unload_entry invoked after a setup that failed (at any stage)
\* completes without raising.
C6_UnloadAfterFailedSetup ==
    setup_pc = "failed" => unload_result # "KeyError"

\* async_setup_entry is between its first write of the entry (line 110) and
\* its last (lines 144-146).
SetupWriting ==
    setup_pc \in { "call", "await", "except", "raise", "scan", "listen_stop",
                   "update_listener" }

\* discover_finished is within lines 63-77.
DfWriting == df_pc \in { "reset", "devices" }

\* async_unload_entry is on its way to the pop of line 188.
UnloadWriting == unload_pc \in { "disconnect", "pop" }

\* The lifecycle operations that are in the middle of mutating the entry.
RegistryWriters ==
    { op \in { "async_setup_entry", "discover_finished",
               "async_unload_entry" } :
        \/ op = "async_setup_entry" /\ SetupWriting
        \/ op = "discover_finished" /\ DfWriting
        \/ op = "async_unload_entry" /\ UnloadWriting }

\* C8: at most one lifecycle operation is mutating the entry at any time,
\* and discover_finished never writes to an entry unload has popped (a
\* popped entry stays absent).
C8_SingleWriter ==
    /\ Cardinality(RegistryWriters) <= 1
    /\ unload_result = "True" => ~entry.present

\* mac is an element of the list.
InList(list, mac) == \E i \in 1..Len(list) : list[i] = mac

\* No element occurs twice in the list.
NoDuplicates(list) ==
    \A i, j \in 1..Len(list) : list[i] = list[j] => i = j

\* discover_finished ran to its end and the entry is still registered.
DiscoverFinishedRan == df_pc = "done" /\ entry.present

\* C9 as stated: for every address the stick reports, switch iff relay,
\* binary_sensor iff motion, sensor always; no address twice in a list.
C9_ListsForEveryAddress ==
    DiscoverFinishedRan =>
        /\ \A mac \in DOMAIN devices :
              /\ InList(entry.switch, mac)
                    <=> USB_RELAY_ID \in devices[mac].features
              /\ InList(entry.binary_sensor, mac)
                    <=> USB_MOTION_ID \in devices[mac].features
              /\ InList(entry.sensor, mac)
        /\ NoDuplicates(entry.switch)
        /\ NoDuplicates(entry.binary_sensor)
        /\ NoDuplicates(entry.sensor)

\* C9 (amended): for every address the stick reports with a device that is
\* not None: switch iff relay, binary_sensor iff motion, sensor always; an
\* address whose device is None is in no list; the lists hold reported
\* addresses only and none twice.
C9_ListsForSupportedDevices ==
    DiscoverFinishedRan =>
        /\ \A mac \in DOMAIN devices :
              IF devices[mac].is_none
                 THEN /\ ~InList(entry.switch, mac)
                      /\ ~InList(entry.binary_sensor, mac)
                      /\ ~InList(entry.sensor, mac)
                 ELSE /\ InList(entry.switch, mac)
                            <=> USB_RELAY_ID \in devices[mac].features
                      /\ InList(entry.binary_sensor, mac)
                            <=> USB_MOTION_ID \in devices[mac].features
                      /\ InList(entry.sensor, mac)
        /\ \A list \in { entry.switch, entry.binary_sensor, entry.sensor } :
              /\ NoDuplicates(list)
              /\ \A i \in 1..Len(list) : list[i] \in DOMAIN devices

\* discover_finished ran over an unsupported node, a motion sensor and
\* left the entry with its lists.
C9_Witness ==
    /\ DiscoverFinishedRan
    /\ Len(devices) = 2
    /\ devices[1].is_none
    /\ devices[2] = [ is_none |-> FALSE, features |-> { USB_MOTION_ID } ]
    /\ entry.binary_sensor = << 2 >>
    /\ entry.switch = << >>

\* ------------------------------------------------------------------------
\* Properties of the entities
\* ------------------------------------------------------------------------

\* C7: a removed entity holds no subscription at the node, whatever adds
\* and removals came before, and no sensor_update ever ran on an entity
\* after its removal.
C7_RemovedEntityUnsubscribed ==
    /\ \A e \in DOMAIN entity_state :
          entity_state[e] = "removed" =>
              \A kind \in Kinds : callbacks[<< e, kind >>] = 0
    /\ ~stale_update

\* Entity 1 was removed while entity 2 is subscribed, and an update that
\* came after the removal reached entity 2 only.
C7_Witness ==
    /\ DOMAIN entity_state = Entities
    /\ entity_state[1] = "removed"
    /\ entity_state[2] = "added"
    /\ callbacks[<< 2, USB_AVAILABLE_ID >>] > 0
    /\ attr_available[1] # attr_available[2]

\* ------------------------------------------------------------------------
\* Properties of the identifier migration
\* ------------------------------------------------------------------------

\* The index of the first table entry whose legacy suffix id ends with, or
\* 0 when there is none.
FirstMatch(id) ==
    IF \E i \in 1..Len(SuffixTable) : EndsWith(id, SuffixTable[i].old)
       THEN CHOOSE i \in 1..Len(SuffixTable) :
               /\ EndsWith(id, SuffixTable[i].old)
               /\ \A j \in 1..(i - 1) : ~EndsWith(id, SuffixTable[j].old)
       ELSE 0

\* id with its trailing Len(old) characters replaced by new.
SuffixReplaced(id, old, new) == SubSeq(id, 1, Len(id) - Len(old)) \o new

\* C10: the first load returns, for the first table entry whose legacy
\* suffix the identifier ends with, the identifier with only that trailing
\* suffix replaced (the part before it unchanged); for an identifier ending
\* with no legacy suffix it reports no migration and the identifier stays.
C10_OnlySuffixReplaced ==
    loads = 1 =>
        LET i == FirstMatch(orig_id) IN
        IF i = 0
           THEN migration = NoMigration /\ unique_id = orig_id
           ELSE /\ migration.migrated
                /\ migration.new_unique_id =
                       SuffixReplaced(orig_id, SuffixTable[i].old,
                                      SuffixTable[i].new)
                /\ unique_id = migration.new_unique_id

\* The identifier the first load leaves in the registry.
AfterFirstLoad(id) ==
    LET i == FirstMatch(id) IN
    IF i = 0 THEN id
             ELSE NewUniqueId(id, SuffixTable[i].old, SuffixTable[i].new)

\* C11: an identifier is rewritten by at most one load: every load after
\* the first finds no legacy suffix, reports no migration, and leaves the
\* identifier as the first load left it.
C11_MigratedAtMostOnce ==
    loads >= 2 =>
        /\ ~migration.migrated
        /\ unique_id = AfterFirstLoad(orig_id)
        /\ \A i \in 1..Len(SuffixTable) :
              ~EndsWith(unique_id, SuffixTable[i].old)

\* A legacy identifier was rewritten by the first load and left alone by
\* the second.
C11_Witness ==
    /\ loads = 2
    /\ EndsWith(orig_id, << "r", "t", "t" >>)
    /\ EndsWith(unique_id, << "p", "i", "n", "g" >>)
    /\ unique_id # orig_id
    /\ ~migration.migrated

\* ------------------------------------------------------------------------
\* Properties of the join policy, the unload and an aborted setup
\* ------------------------------------------------------------------------

\* C12: a discover_finished that has come to its end has applied exactly
\* one join configuration, the one the persisted option selects: with new
\* entities disabled, join requests are accepted without auto-accept and
\* no join callback is subscribed; otherwise they are auto-accepted and
\* the callback is subscribed. Before that point (and in a callback that
\* raised on a popped entry) no configuration has been applied, so none is
\* applied twice.
C12_JoinPolicyFollowsOption ==
    /\ df_pc = "done" =>
          IF pref_disable_new_entities
             THEN join_requests = << TRUE, FALSE >> /\ ~join_callback
             ELSE join_requests = << TRUE, TRUE >> /\ join_callback
    /\ df_pc # "done" =>
          join_requests = NoJoinRequests /\ ~join_callback

\* The scan ended with new entities disabled.
C12_Witness ==
    /\ df_pc = "done"
    /\ pref_disable_new_entities
    /\ join_requests = << TRUE, FALSE >>
    /\ ~join_callback

\* Calls of api_stick.disconnect made by the except clauses of setup.
HandlerDisconnectCalls ==
    IF setup_pc \in { "raise", "failed" } /\ failure.kind # "PortError"
       THEN 1 ELSE 0

\* Calls of api_stick.disconnect the executor has run for shutdown.
ShutdownDisconnectCalls ==
    IF setup_pc = "done" /\ ~stop_listener THEN 1 - executor_jobs ELSE 0

\* Calls of api_stick.disconnect made by async_unload_entry.
UnloadDisconnectCalls ==
    disconnect_calls - HandlerDisconnectCalls - ShutdownDisconnectCalls

\* C19: an unload that returns has disconnected the stick and popped the
\* entry exactly when async_unload_platforms reported success, and returns
\* that report; when it reported failure the unload has not called
\* disconnect and the entry is retained with its stick; the update
\* listener is released in both cases. Unload never disconnects or pops
\* without a reported success.
C19_UnloadFollowsPlatforms ==
    /\ unload_pc \in { "disconnect", "pop" } => unload_ok
    /\ unload_pc \in { "idle", "platforms", "disconnect", "raised" } =>
          UnloadDisconnectCalls = 0
    /\ unload_pc = "done" =>
          /\ unload_result = (IF unload_ok THEN "True" ELSE "False")
          /\ ~update_listener
          /\ IF unload_ok
                THEN /\ UnloadDisconnectCalls = 1
                     /\ ~connected
                     /\ ~entry.present
                ELSE /\ UnloadDisconnectCalls = 0
                     /\ entry.present
                     /\ STICK \in entry.keys

\* The platforms failed to unload: unload returned False, the stick is
\* still connected and the entry is still there.
C19_Witness ==
    /\ unload_pc = "done"
    /\ unload_result = "False"
    /\ connected
    /\ entry.present
    /\ ~update_listener
    /\ disconnect_calls = 0

\* C20: a setup in which a stage raised registers nothing: the scan is
\* never started and neither the stop listener, nor the update listener
\* (or its undo in the entry), nor the services are registered; whatever
\* is registered was registered after all three stages had completed.
C20_AbortRegistersNothing ==
    /\ failure # NoFailure =>
          /\ ~InList(started, "scan")
          /\ df_pc = "idle"
          /\ ~stop_listener
          /\ ~update_listener
          /\ UNDO_UPDATE_LISTENER \notin entry.keys
          /\ ~services
    /\ ( \/ InList(started, "scan")
         \/ stop_listener
         \/ update_listener
         \/ services ) =>
          /\ failure = NoFailure
          /\ completed = { Stages[i] : i \in 1..Len(Stages) }

\* Setup has raised after coordinator discovery failed.
C20_Witness ==
    /\ Failed("initialize_circle_plus", "NetworkDown")
    /\ setup_pc = "failed"
    /\ completed = { "connect", "initialize_stick" }
    /\ started = Stages


\* ------------------------------------------------------------------------
\* Properties of the Smile helpers
\* ------------------------------------------------------------------------

\* The attribute key of each severity of SEVERITIES, written out.
SeverityKeys ==
    << << "O", "T", "H", "E", "R", "_", "m", "s", "g" >>,
       << "I", "N", "F", "O", "_", "m", "s", "g" >>,
       << "W", "A", "R", "N", "I", "N", "G", "_", "m", "s", "g" >>,
       << "E", "R", "R", "O", "R", "_", "m", "s", "g" >> >>

\* The label of each severity of SEVERITIES in the per-id view.
SeverityTitles ==
    << << "O", "t", "h", "e", "r" >>,
       << "I", "n", "f", "o" >>,
       << "W", "a", "r", "n", "i", "n", "g" >>,
       << "E", "r", "r", "o", "r" >> >>

\* The place in SEVERITIES of the severity a tag counts as: its own when
\* it is one, that of "other" (the first) when it is not.
SeverityOf(tag) ==
    IF \E i \in 1..Len(SEVERITIES) : SEVERITIES[i] = tag
       THEN CHOOSE i \in 1..Len(SEVERITIES) : SEVERITIES[i] = tag
       ELSE 1

\* The messages of severity sev in the notifications from the i-th on,
\* in the order of the notifications and, within one, of its entries.
RECURSIVE MessagesOfSeverity(_, _, _)
MessagesOfSeverity(notify, sev, i) ==
    IF i > Len(notify)
       THEN << >>
       ELSE LET entries ==
                    SelectSeq(notify[i].details,
                              LAMBDA e : SeverityOf(e.type) = sev)
            IN  [ j \in 1..Len(entries) |-> entries[j].msg ]
                \o MessagesOfSeverity(notify, sev, i + 1)

\* C13: whatever was evaluated before, extra_state_attributes returns None
\* when the snapshot has no notifications; otherwise it returns exactly
\* one '<SEVERITY>_msg' entry per severity, holding the messages of that
\* severity in the current snapshot, in processing order (an empty list
\* when there are none), with unrecognised tags counted under OTHER_msg;
\* so no message of an earlier snapshot remains.
C13_AttributesOfCurrentSnapshot ==
    evaluations > 0 =>
        IF gw_notifications = << >>
           THEN attrs_result.kind = "None"
           ELSE /\ attrs_result.kind = "value"
                /\ Len(attrs_result.value) = Len(SEVERITIES)
                /\ \A sev \in 1..Len(SEVERITIES) :
                      /\ DictHas(attrs_result.value, SeverityKeys[sev])
                      /\ DictGet(attrs_result.value, SeverityKeys[sev])
                            = MessagesOfSeverity(gw_notifications, sev, 1)

\* The second evaluation, of a snapshot with two info messages in two
\* notifications, an unrecognised tag and no warning.
C13_Witness ==
    /\ evaluations = 2
    /\ Len(gw_notifications) = 2
    /\ attrs_result.kind = "value"
    /\ DictGet(attrs_result.value, SeverityKeys[2])
          = << << "a" >>, << "b" >> >>
    /\ DictGet(attrs_result.value, SeverityKeys[1]) = << << "b" >> >>
    /\ DictGet(attrs_result.value, SeverityKeys[3]) = << >>

\* C14: after an evaluation the per-id view holds exactly the ids of the
\* snapshot evaluated, each once, and for each the string
\* '<Severity>: <message>' of the last entry of that notification.
C14_NotificationOfCurrentSnapshot ==
    evaluations > 0 =>
        /\ Len(notification) = Len(gw_notifications)
        /\ \A id \in NotificationIds :
              DictHas(notification, id)
                  <=> \E i \in 1..Len(gw_notifications) :
                        gw_notifications[i].id = id
        /\ \A i \in 1..Len(gw_notifications) :
              LET details == gw_notifications[i].details
                  last == details[Len(details)]
              IN  /\ DictHas(notification, gw_notifications[i].id)
                  /\ DictGet(notification, gw_notifications[i].id)
                        = SeverityTitles[SeverityOf(last.type)]
                              \o << ":", " " >> \o last.msg

\* The second evaluation, of a snapshot whose one notification carries an
\* info entry and then an unrecognised one.
C14_Witness ==
    /\ evaluations = 2
    /\ Len(gw_notifications) = 1
    /\ gw_notifications[1].id = 2
    /\ Len(gw_notifications[1].details) = 2
    /\ gw_notifications[1].details[1].type = << "i", "n", "f", "o" >>
    /\ notification =
          << [ key |-> 2,
               value |-> << "O", "t", "h", "e", "r", ":", " ", "b" >> ] >>

\* A state of the thermostat was read.
StateRead == th_call \in { "heating_state", "cooling_state" }

\* C15: with the active-device flag false, heating_state and cooling_state
\* return None, whatever the heater's flags and the control_state are.
C15_NoneWithoutActiveDevice ==
    (StateRead /\ ~gw_data.active_device) => th_returned = "None"

\* heating_state read with the flag false while the heater reports
\* heating and the device's control_state is "heating".
C15_Witness ==
    /\ th_call = "heating_state"
    /\ ~gw_data.active_device
    /\ gw_data.heater.heating_state = "True"
    /\ gw_data.control_state = "heating"
    /\ th_returned = "None"

\* C16: with the active-device flag true, a control_state that is there
\* decides: heating_state is (control_state = "heating") and cooling_state
\* is (control_state = "cooling"), whatever the heater's flags; without a
\* control_state the result is the heater's flag of that name.
C16_ControlStateFirst ==
    (StateRead /\ gw_data.active_device) =>
        LET mode == IF th_call = "heating_state" THEN "heating"
                                                 ELSE "cooling"
        IN  IF gw_data.control_state # "absent"
               THEN th_returned = (IF gw_data.control_state = mode
                                      THEN "True" ELSE "False")
               ELSE th_returned = gw_data.heater[th_call]

\* heating_state read while the heater reports heating and the device's
\* control_state is "cooling".
C16_Witness ==
    /\ th_call = "heating_state"
    /\ gw_data.active_device
    /\ gw_data.heater.heating_state = "True"
    /\ gw_data.control_state = "cooling"
    /\ th_returned = "False"

\* The exceptions that are lookup errors (LookupError and its subclasses).
LookupErrors == { "LookupError", "KeyError", "IndexError" }

\* C17: for a preset of the table get_preset_temp returns the second
\* element of its pair when cooling_active is true and the first
\* otherwise; for a preset that is not in the table it raises a lookup
\* error and returns nothing.
C17_PresetTempOrLookupError ==
    call.fn = "get_preset_temp" =>
        IF call.preset \in DOMAIN call.presets
           THEN /\ returned.kind = "value"
                /\ returned.value =
                      call.presets[call.preset]
                          [IF call.cooling_active \in { "True", "1" }
                              THEN 2 ELSE 1]
           ELSE returned.kind \in LookupErrors

\* The ten categories of the selector.
DeviceStateCategories ==
    { "cooling", "dhw-heating", "dhw and cooling", "dhw and heating",
      "heating", "idle" }

BinarySensorCategories ==
    { "dhw_state", "flame_state", "slave_boiler_state",
      "plugwise_notification" }

\* C18: icon_selector never raises; it returns None exactly for a category
\* that is none of the ten; and for a device-state category it returns
\* what it returns for state True and for state False.
C18_IconSelectorTotal ==
    call.fn = "icon_selector" =>
        /\ returned.kind \in { "value", "None" }
        /\ returned.kind = "None"
              <=> call.arg \notin
                      (DeviceStateCategories \cup BinarySensorCategories)
        /\ call.arg \in DeviceStateCategories =>
              /\ returned = icon_selector(call.arg, "True")
              /\ returned = icon_selector(call.arg, "False")

\* icon_selector called with a category that is none of the ten.
C18_Witness ==
    /\ call.fn = "icon_selector"
    /\ call.arg = "auto"
    /\ call.state = "True"
    /\ returned.kind = "None"

\* ------------------------------------------------------------------------
\* Specifications
\* ------------------------------------------------------------------------

\* The lifecycle without entities or identifiers.
IdleLifecycle ==
    /\ pref_disable_new_entities = FALSE
    /\ InitLifecycle

\* No Smile helper is in use.
IdleSmile == InitNotify /\ IdleThermostat /\ InitHelpers

Init == InitLifecycle /\ IdleEntity /\ IdleMigrate /\ IdleSmile

Next ==
    \/ async_setup_entry
    \/ shutdown
    \/ ExecutorDisconnect
    \/ async_unload_entry
    \/ discover_finished

Spec == Init /\ [][Next]_vars

EntityInit == IdleLifecycle /\ InitEntity /\ IdleMigrate /\ IdleSmile

SpecEntity == EntityInit /\ [][NextEntity]_vars

MigrateInit == IdleLifecycle /\ IdleEntity /\ InitMigrate /\ IdleSmile

SpecMigrate == MigrateInit /\ [][NextMigrate]_vars

\* The parts of __init__.py at rest.
IdleUSB == IdleLifecycle /\ IdleEntity /\ IdleMigrate

NotifyInit == IdleUSB /\ InitNotify /\ IdleThermostat /\ InitHelpers

SpecNotify == NotifyInit /\ [][NextNotify]_vars

ThermostatInit == IdleUSB /\ InitNotify /\ InitThermostat /\ InitHelpers

SpecThermostat == ThermostatInit /\ [][NextThermostat]_vars

HelpersInit == IdleUSB /\ InitNotify /\ IdleThermostat /\ InitHelpers

SpecHelpers == HelpersInit /\ [][NextHelpers]_vars
====
